---- MODULE Spec2Model ----
(***************************************************************************)
(* ue5osc.Communicator: the caller's thread, the listener thread that runs *)
(* BlockingOSCUDPServer.serve_forever, the engine that sends replies, and  *)
(* the OSCMessageReceiver that hands one reply to a waiting caller.        *)
(*                                                                         *)
(* ue5osc/osc_dispatcher.py (OSCMessageReceiver) is not among the source   *)
(* files; its reply slot is modelled from section 4.2 of the               *)
(* specification (Arrive, wait_for_response).                              *)
(***************************************************************************)
EXTENDS Integers, Sequences, FiniteSets, TLC

\* ------------------------------------------------------------------ bounds
MaxInbox == 2       \* datagrams waiting at the listener's socket
MaxPathLen == 3     \* characters of a file name given to save_image
MaxCloses == 2      \* close_osc returns counted (the counter saturates)

\* ------------------------------------------------------------------ values
\* A Python value sent or received as an OSC argument.
F(n) == [ty |-> "float", num |-> n, str |-> <<>>]
I(n) == [ty |-> "int", num |-> n, str |-> <<>>]
S(s) == [ty |-> "str", num |-> 0, str |-> s]

\* float(x) of a number: the same number as a float.
Float(v) == [ty |-> "float", num |-> v.num, str |-> <<>>]
\* -x of a number keeps its type.
Neg(v) == [v EXCEPT !.num = 0 - v.num]
\* str(x) of a str is that str.
Str(v) == IF v.ty = "str" THEN v ELSE S(<<>>)

\* No value: what a method without a return statement returns, and an empty
\* reply slot.
NoValue == <<>>

Msg(address, args) == [addr |-> address, args |-> args]

\* dummy_data = 0.0
dummy_data == F(0)

\* ------------------------------------------------------------------ inputs
Chars == {"a", "\\", "/"}
RECURSIVE StringsUpTo(_)
StringsUpTo(n) ==
    IF n = 0 THEN {<<>>}
    ELSE LET shorter == StringsUpTo(n - 1)
         IN  shorter \cup {Append(s, c) : s \in {t \in shorter : Len(t) = n - 1}, c \in Chars}
Paths == StringsUpTo(MaxPathLen)

Numbers == {I(5), F(2)}
Resolutions == {<<"2", "x", "1">>}
Commands == {<<"r">>}
Levels == {0, 4}
\* What the engine may send back: a rotation and a project name.
Replies == {<<F(1), F(2), F(3)>>, <<S(<<"p">>)>>}

\* --------------------------------------------------------- save_image path
\* The largest index of ch in s, 0 when s does not hold it.
RECURSIVE LastIndexOf(_, _)
LastIndexOf(s, ch) ==
    IF s = <<>> THEN 0
    ELSE IF s[Len(s)] = ch THEN Len(s)
    ELSE LastIndexOf(SubSeq(s, 1, Len(s) - 1), ch)

\* str.rsplit(sep, maxsplit): split at the last maxsplit occurrences of sep.
RECURSIVE rsplit(_, _, _)
rsplit(s, sep, maxsplit) ==
    LET i == LastIndexOf(s, sep)
    IN  IF maxsplit = 0 \/ i = 0 THEN <<s>>
        ELSE rsplit(SubSeq(s, 1, i - 1), sep, maxsplit - 1)
                 \o <<SubSeq(s, i + 1, Len(s))>>

\* sep.join(parts)
RECURSIVE join(_, _)
join(sep, parts) ==
    IF Len(parts) = 1 THEN parts[1]
    ELSE join(sep, SubSeq(parts, 1, Len(parts) - 1)) \o <<sep>> \o parts[Len(parts)]

\* filename = "/".join(filename.rsplit("\\", 1))
NormalizeFilename(filename) == join("/", rsplit(filename, "\\", 1))

VARIABLES
    pc,               \* where the calling thread is
    call,             \* the method the caller is in, or was in last, with its arguments
    sent,             \* the messages that call has handed to client.send_message
    ret,              \* what the last returned call returned
    got,              \* the reply the current call took from the message handler
    err,              \* the exception that is propagating in the caller
    scope,            \* the with-statement: out, in, exiting, left
    entered,          \* what __enter__ returned
    closes,           \* close_osc calls that have returned
    serverBound,      \* self.server exists, bound to py_port
    clientBound,      \* self.client exists
    thread,           \* self.server_thread: none, started, serving, finishing, exited
    shutdownRequest,  \* the server's shutdown request flag
    isShutDown,       \* the server's is-shut-down event
    inbox,            \* the datagrams waiting at the listener's socket
    slot              \* the message handler's reply slot

vars == <<pc, call, sent, ret, got, err, scope, entered, closes, serverBound,
          clientBound, thread, shutdownRequest, isShutDown, inbox, slot>>

callerVars == <<pc, call, sent, ret, got, err, scope, entered, closes>>
serverVars == <<thread, shutdownRequest, isShutDown>>
boundVars == <<serverBound, clientBound>>

EmptySlot == [state |-> "EMPTY", val |-> NoValue]

Init ==
    /\ pc = "new"
    /\ call = [name |-> "none", args |-> <<>>]
    /\ sent = <<>>
    /\ ret = NoValue
    /\ got = NoValue
    /\ err = "none"
    /\ scope = "out"
    /\ entered = "nothing"
    /\ closes = 0
    /\ serverBound = FALSE
    /\ clientBound = FALSE
    /\ thread = "none"
    /\ shutdownRequest = FALSE
    /\ isShutDown = FALSE
    /\ inbox = <<>>
    /\ slot = EmptySlot

\* ------------------------------------------------------------ construction
\* Communicator.__init__ started the thread before the client existed.
ConstructThreadFirst(serverBinds, clientBinds) ==
    /\ pc = "new"
    /\ slot' = EmptySlot
    /\ serverBound' = serverBinds
    /\ thread' = IF serverBinds THEN "started" ELSE "none"
    /\ clientBound' = (serverBinds /\ clientBinds)
    /\ pc' = IF serverBinds /\ clientBinds THEN "idle" ELSE "failed"
    /\ err' = IF serverBinds /\ clientBinds THEN "none" ELSE "OSError"
    /\ UNCHANGED <<call, sent, ret, got, scope, entered, closes,
                   shutdownRequest, isShutDown, inbox>>

\* Communicator.__init__, in the order of its statements: the message handler,
\* the server (binds py_port, may raise), the client (may raise), then the
\* thread is created and started. A statement that raises ends the constructor.
Construct(serverBinds, clientBinds) ==
    /\ pc = "new"
    /\ slot' = EmptySlot
    /\ serverBound' = serverBinds
    /\ clientBound' = (serverBinds /\ clientBinds)
    /\ thread' = IF serverBinds /\ clientBinds THEN "started" ELSE "none"
    /\ pc' = IF serverBinds /\ clientBinds THEN "idle" ELSE "failed"
    /\ err' = IF serverBinds /\ clientBinds THEN "none" ELSE "OSError"
    /\ UNCHANGED <<call, sent, ret, got, scope, entered, closes,
                   shutdownRequest, isShutDown, inbox>>

__init__ == \E serverBinds, clientBinds \in BOOLEAN : Construct(serverBinds, clientBinds)

\* ---------------------------------------------------------- listener thread
\* serve_forever begins: it clears the is-shut-down event and enters its loop.
ServeEnter ==
    /\ thread = "started"
    /\ thread' = "serving"
    /\ isShutDown' = FALSE
    /\ UNCHANGED <<callerVars, boundVars, shutdownRequest, inbox, slot>>

\* The message handler's callback, on the listener thread: an EMPTY slot takes
\* the payload and becomes FILLED; a FILLED slot is overwritten or the payload
\* is dropped (the specification leaves the choice open).
Arrive(payload, overwrite) ==
    IF slot.state = "EMPTY" \/ overwrite
    THEN [state |-> "FILLED", val |-> payload]
    ELSE slot

\* One turn of the serve_forever loop with a datagram ready and no shutdown
\* requested: the datagram is read and dispatched to the message handler.
ServeDispatch ==
    /\ thread = "serving"
    /\ ~shutdownRequest
    /\ inbox # <<>>
    /\ inbox' = Tail(inbox)
    /\ \E overwrite \in BOOLEAN : slot' = Arrive(Head(inbox), overwrite)
    /\ UNCHANGED <<callerVars, boundVars, serverVars>>

\* The loop sees the shutdown request and ends: the request flag is reset and
\* the is-shut-down event is set.
ServeExit ==
    /\ thread = "serving"
    /\ shutdownRequest
    /\ shutdownRequest' = FALSE
    /\ isShutDown' = TRUE
    /\ thread' = "finishing"
    /\ UNCHANGED <<callerVars, boundVars, inbox, slot>>

\* serve_forever has returned; the thread ends.
ThreadExit ==
    /\ thread = "finishing"
    /\ thread' = "exited"
    /\ UNCHANGED <<callerVars, boundVars, shutdownRequest, isShutDown, inbox, slot>>

\* ------------------------------------------------------------------- engine
\* The engine (or anything else) sends a datagram to py_port; the bound socket
\* queues it whether or not the listener thread is serving.
EngineSends ==
    /\ serverBound
    /\ Len(inbox) < MaxInbox
    /\ \E payload \in Replies : inbox' = Append(inbox, payload)
    /\ UNCHANGED <<callerVars, boundVars, serverVars, slot>>

\* ------------------------------------------------- fire-and-forget methods
\* A method that calls client.send_message once and then returns, or sleeps
\* first when the method ends with a sleep.
FireAndForget(name, args, message, sleeps) ==
    /\ pc = "idle"
    /\ call' = [name |-> name, args |-> args]
    /\ sent' = <<message>>
    /\ ret' = NoValue
    /\ got' = NoValue
    /\ pc' = IF sleeps THEN "sleep" ELSE "idle"
    /\ UNCHANGED <<err, scope, entered, closes, boundVars, serverVars, inbox, slot>>

set_location ==
    \E x, y, z \in Numbers :
        FireAndForget("set_location", <<x, y, z>>, Msg("/set/location", <<x, y, z>>), FALSE)

move_forward ==
    \E amount \in Numbers :
        FireAndForget("move_forward", <<amount>>,
                      Msg("/move/forward", <<Float(amount)>>), FALSE)

rotate_left ==
    \E degree \in Numbers :
        FireAndForget("rotate_left", <<degree>>,
                      Msg("/rotate/left", <<Float(degree)>>), FALSE)

rotate_right ==
    \E degree \in Numbers :
        FireAndForget("rotate_right", <<degree>>,
                      Msg("/rotate/right", <<Float(degree)>>), FALSE)

\* move_backward forgot the minus sign.
move_backward_unsigned ==
    \E amount \in Numbers :
        FireAndForget("move_backward", <<amount>>,
                      Msg("/move/forward", <<Float(amount)>>), FALSE)

move_backward ==
    \E amount \in Numbers :
        FireAndForget("move_backward", <<amount>>,
                      Msg("/move/forward", <<Float(Neg(amount))>>), FALSE)

set_resolution ==
    \E res \in Resolutions :
        FireAndForget("set_resolution", <<S(res)>>, Msg("/set/resolution", <<S(res)>>), FALSE)

\* The send, then sleep(1.5).
save_image ==
    \E filename \in Paths :
        FireAndForget("save_image", <<S(filename)>>,
                      Msg("/save/image", <<Str(S(NormalizeFilename(filename)))>>), TRUE)

\* The send, then sleep(1).
reset == FireAndForget("reset", <<>>, Msg("/reset", <<F(0)>>), TRUE)

\* console ended with a sleep, as save_image and reset do.
console_then_sleeps ==
    \E message \in Commands :
        FireAndForget("console", <<S(message)>>, Msg("/console", <<S(message)>>), TRUE)

console ==
    \E message \in Commands :
        FireAndForget("console", <<S(message)>>, Msg("/console", <<S(message)>>), FALSE)

switch_camera == FireAndForget("switch_camera", <<>>, Msg("/switch/view", <<F(0)>>), FALSE)

quality ==
    \E graphics_level \in Levels :
        FireAndForget("quality", <<I(graphics_level)>>,
                      Msg("/quality", <<I(graphics_level)>>), FALSE)

\* sleep(...) is over: save_image or reset returns.
sleep_returns ==
    /\ pc = "sleep"
    /\ pc' = "idle"
    /\ UNCHANGED <<call, sent, ret, got, err, scope, entered, closes,
                   boundVars, serverVars, inbox, slot>>

\* ------------------------------------------------ request/response methods
\* send_and_wait returned as soon as it had sent, without waiting.
send_and_wait_no_wait(name, args, osc_address) ==
    /\ pc = "idle"
    /\ call' = [name |-> name, args |-> args]
    /\ sent' = <<Msg(osc_address, <<dummy_data>>)>>
    /\ ret' = <<dummy_data>>
    /\ got' = NoValue
    /\ pc' = "idle"
    /\ UNCHANGED <<err, scope, entered, closes, boundVars, serverVars, inbox, slot>>

\* send_and_wait up to its wait: the dummy value is sent to osc_address and the
\* caller enters message_handler.wait_for_response().
send_and_wait(name, args, osc_address) ==
    /\ pc = "idle"
    /\ call' = [name |-> name, args |-> args]
    /\ sent' = <<Msg(osc_address, <<dummy_data>>)>>
    /\ ret' = NoValue
    /\ got' = NoValue
    /\ pc' = "wait"
    /\ UNCHANGED <<err, scope, entered, closes, boundVars, serverVars, inbox, slot>>

get_project_name == send_and_wait("get_project_name", <<>>, "/get/project")

get_location == send_and_wait("get_location", <<>>, "/get/location")

get_rotation == send_and_wait("get_rotation", <<>>, "/get/rotation")

\* set_yaw begins with self.get_rotation().
set_yaw == \E yaw \in Numbers : send_and_wait("set_yaw", <<yaw>>, "/get/rotation")

\* wait_for_response can return: the slot is FILLED.
wait_for_response_ready == slot.state = "FILLED"

\* wait_for_response returns the stored value and leaves the slot EMPTY.
wait_for_response ==
    /\ wait_for_response_ready
    /\ got' = slot.val
    /\ slot' = EmptySlot

\* send_and_wait returned its dummy value instead of the response.
send_and_wait_returns_dummy(response) == <<dummy_data>>

\* return self.message_handler.wait_for_response()
send_and_wait_result(response) == response

\* get_project_name, get_location and get_rotation return what send_and_wait
\* returns.
get_returns ==
    /\ pc = "wait"
    /\ call.name \in {"get_project_name", "get_location", "get_rotation"}
    /\ wait_for_response
    /\ ret' = send_and_wait_result(got')
    /\ pc' = "idle"
    /\ UNCHANGED <<call, sent, err, scope, entered, closes, boundVars, serverVars, inbox>>

\* set_yaw sent the yaw it had read back instead of the new one.
set_yaw_message_old_yaw(rotation, yaw) ==
    Msg("/set/rotation", <<rotation[2], rotation[1], rotation[3]>>)

\* ue_roll, ue_pitch, _ = rotation; the message is [ue_pitch, ue_roll, yaw].
set_yaw_message(rotation, yaw) ==
    Msg("/set/rotation", <<rotation[2], rotation[1], yaw>>)

\* set_yaw after get_rotation has returned: a reply of three values is
\* unpacked and the rotation is sent; any other reply raises ValueError.
set_yaw_continues ==
    /\ pc = "wait"
    /\ call.name = "set_yaw"
    /\ wait_for_response
    /\ ret' = NoValue
    /\ IF Len(got') = 3
       THEN /\ sent' = Append(sent, set_yaw_message(got', call.args[1]))
            /\ pc' = "idle"
            /\ err' = err
       ELSE /\ sent' = sent
            /\ pc' = "raised"
            /\ err' = "ValueError"
    /\ UNCHANGED <<call, scope, entered, closes, boundVars, serverVars, inbox>>

\* The caller handles the exception that is propagating.
Catch ==
    /\ pc = "raised"
    /\ pc' = "idle"
    /\ err' = "none"
    /\ UNCHANGED <<call, sent, ret, got, scope, entered, closes,
                   boundVars, serverVars, inbox, slot>>

\* ---------------------------------------------------------------- lifecycle
\* server.shutdown() also cleared the is-shut-down event.
server_shutdown_clears_event ==
    /\ shutdownRequest' = TRUE
    /\ isShutDown' = FALSE

\* self.server.shutdown(), its first half: the request flag is set; the call
\* then waits for the is-shut-down event.
server_shutdown ==
    /\ shutdownRequest' = TRUE
    /\ isShutDown' = isShutDown

\* close_osc, called by the caller itself.
close_osc ==
    /\ pc = "idle"
    /\ call' = [name |-> "close_osc", args |-> <<>>]
    /\ sent' = <<>>
    /\ ret' = NoValue
    /\ got' = NoValue
    /\ server_shutdown
    /\ pc' = "shutdown"
    /\ UNCHANGED <<err, scope, entered, closes, boundVars, thread, inbox, slot>>

\* server.shutdown() returns once the is-shut-down event is set; close_osc goes
\* on to self.server_thread.join(), which raises RuntimeError for a thread that
\* was never started.
shutdown_returns ==
    /\ pc = "shutdown"
    /\ isShutDown
    /\ pc' = IF thread = "none" THEN "raised" ELSE "join"
    /\ err' = IF thread = "none" THEN "RuntimeError" ELSE err
    /\ UNCHANGED <<call, sent, ret, got, scope, entered, closes,
                   boundVars, serverVars, inbox, slot>>

\* close_osc did not join the thread.
thread_not_joined == TRUE

\* self.server_thread.join() returns when the thread has ended.
thread_joined == thread = "exited"

\* join() returns and with it close_osc; a close_osc called by __exit__ ends the
\* with-statement, and an exception of the body goes on propagating.
join_returns ==
    /\ pc = "join"
    /\ thread_joined
    /\ closes' = IF closes < MaxCloses THEN closes + 1 ELSE closes
    /\ scope' = IF scope = "exiting" THEN "left" ELSE scope
    /\ pc' = IF scope = "exiting" /\ err # "none" THEN "raised" ELSE "idle"
    /\ UNCHANGED <<call, sent, ret, got, err, entered, boundVars, serverVars, inbox, slot>>

\* with Communicator(...) as c: __enter__ returns self.
__enter__ ==
    /\ pc = "idle"
    /\ scope = "out"
    /\ call' = [name |-> "__enter__", args |-> <<>>]
    /\ sent' = <<>>
    /\ ret' = NoValue
    /\ got' = NoValue
    /\ scope' = "in"
    /\ entered' = "self"
    /\ UNCHANGED <<pc, err, closes, boundVars, serverVars, inbox, slot>>

\* __exit__ called close_osc only when the body had ended without an error.
exit_closes_on_success_only(error) ==
    /\ scope = "in"
    /\ IF error THEN pc \in {"idle", "raised"} ELSE pc = "idle"
    /\ call' = [name |-> "__exit__", args |-> <<>>]
    /\ sent' = <<>>
    /\ ret' = NoValue
    /\ got' = NoValue
    /\ err' = IF error /\ pc = "idle" THEN "BodyError" ELSE err
    /\ IF error
       THEN /\ scope' = "left"
            /\ pc' = "raised"
            /\ UNCHANGED <<shutdownRequest, isShutDown>>
       ELSE /\ scope' = "exiting"
            /\ server_shutdown
            /\ pc' = "shutdown"
    /\ UNCHANGED <<entered, closes, boundVars, thread, inbox, slot>>

\* The with-statement's body ends, normally or (error) with an exception: one
\* that a method raised, or one of the body's own. __exit__ calls close_osc.
exit(error) ==
    /\ scope = "in"
    /\ IF error THEN pc \in {"idle", "raised"} ELSE pc = "idle"
    /\ call' = [name |-> "__exit__", args |-> <<>>]
    /\ sent' = <<>>
    /\ ret' = NoValue
    /\ got' = NoValue
    /\ err' = IF error /\ pc = "idle" THEN "BodyError" ELSE err
    /\ scope' = "exiting"
    /\ server_shutdown
    /\ pc' = "shutdown"
    /\ UNCHANGED <<entered, closes, boundVars, thread, inbox, slot>>

__exit__ == \E error \in BOOLEAN : exit(error)

\* ------------------------------------------------------------ specification
Next ==
    \/ __init__
    \/ __enter__
    \/ __exit__
    \/ close_osc
    \/ shutdown_returns
    \/ join_returns
    \/ get_project_name
    \/ get_location
    \/ get_rotation
    \/ get_returns
    \/ set_location
    \/ set_yaw
    \/ set_yaw_continues
    \/ move_forward
    \/ rotate_left
    \/ rotate_right
    \/ move_backward
    \/ set_resolution
    \/ save_image
    \/ sleep_returns
    \/ reset
    \/ console
    \/ switch_camera
    \/ quality
    \/ Catch
    \/ ServeEnter
    \/ ServeDispatch
    \/ ServeExit
    \/ ThreadExit
    \/ EngineSends

Spec == Init /\ [][Next]_vars

\* ------------------------------------------------------------------ claims
\* The reply of /get/rotation as set_yaw reads it: roll first, pitch second.
Roll(rotation) == rotation[1]
Pitch(rotation) == rotation[2]

GetRotationRequest == Msg("/get/rotation", <<F(0)>>)

RECURSIVE ForwardSlashForm(_)
ForwardSlashForm(s) ==
    IF s = <<>> THEN <<>>
    ELSE <<IF Head(s) = "\\" THEN "/" ELSE Head(s)>> \o ForwardSlashForm(Tail(s))

\* C2: the path save_image transmits is the forward-slash form of its input:
\* every backslash is replaced by a forward slash, so none is transmitted.
C2_TransmitsForwardSlashForm ==
    call.name = "save_image" =>
        /\ sent[1].args[1].str = ForwardSlashForm(call.args[1].str)
        /\ \A i \in 1..Len(sent[1].args[1].str) : sent[1].args[1].str[i] # "\\"

\* C3: once close_osc has returned, the listener thread has exited, and no
\* step takes a datagram from the socket or fills the reply slot, whatever
\* arrives.
C3_NoDispatchAfterClose ==
    /\ [](closes >= 1 => thread = "exited")
    /\ [][closes >= 1 =>
            /\ Len(inbox') >= Len(inbox)
            /\ (slot' # slot => slot'.state = "EMPTY")]_vars

C3_Witness ==
    /\ closes >= 1
    /\ call.name = "close_osc"
    /\ pc = "idle"
    /\ Len(inbox) = MaxInbox

\* C4: entering the scope returns the communicator itself, and once the scope
\* has been left, after a normal end or an error, close_osc has run and the
\* listener thread has exited.
C4_ScopeAlwaysShutsDown ==
    /\ scope # "out" => entered = "self"
    /\ scope = "left" => (closes >= 1 /\ thread = "exited")

C4_Witness ==
    /\ scope = "left"
    /\ pc = "raised"
    /\ err = "BodyError"

RequestAddress(name) ==
    CASE name = "get_project_name" -> "/get/project"
      [] name = "get_location" -> "/get/location"
      [] name = "get_rotation" -> "/get/rotation"
      [] name = "set_yaw" -> "/get/rotation"
      [] OTHER -> "none"

GetMethods == {"get_project_name", "get_location", "get_rotation"}

\* C5: a request/response method sends exactly one message, to its address and
\* with the placeholder argument, then waits; it has returned only with a reply
\* it took from the message handler, which is its result; while the slot is
\* EMPTY no step ends the wait.
C5_RequestBlocksUntilReply ==
    /\ [](pc = "wait" => sent = <<Msg(RequestAddress(call.name), <<F(0)>>)>>)
    /\ []((call.name \in GetMethods /\ pc = "idle") =>
            /\ sent = <<Msg(RequestAddress(call.name), <<F(0)>>)>>
            /\ got # NoValue
            /\ ret = got)
    /\ [][(pc = "wait" /\ slot.state = "EMPTY") => pc' = "wait"]_vars

C5_Witness ==
    /\ call.name = "get_location"
    /\ pc = "wait"
    /\ slot.state = "EMPTY"
    /\ inbox = <<>>
    /\ closes >= 1

C7_SecondCloseReturns ==
    closes >= 1 =>
        /\ thread = "exited"
        /\ pc = "shutdown" => isShutDown
        /\ pc = "join" => thread = "exited"
        /\ err # "RuntimeError"

C7_Witness ==
    /\ closes = 2
    /\ call.name = "close_osc"
    /\ pc = "idle"
    /\ err = "none"

FireAndForgetMethods ==
    {"set_location", "move_forward", "move_backward", "rotate_left", "rotate_right",
     "set_resolution", "save_image", "reset", "console", "switch_camera", "quality"}

\* The address table of the specification.
DocumentedAddresses(name) ==
    CASE name = "set_location" -> {"/set/location"}
      [] name \in {"move_forward", "move_backward"} -> {"/move/forward"}
      [] name = "rotate_left" -> {"/rotate/left"}
      [] name = "rotate_right" -> {"/rotate/right"}
      [] name = "set_resolution" -> {"/set/resolution"}
      [] name = "save_image" -> {"/save/image"}
      [] name = "reset" -> {"/reset"}
      [] name = "console" -> {"/console"}
      [] name = "switch_camera" -> {"/toggle/view", "/switch/view"}
      [] name = "quality" -> {"/set/quality", "/quality"}
      [] OTHER -> {}

\* The argument shapes of the specification's address table.
DocumentedShape(name, given, args) ==
    CASE name \in {"set_location", "set_resolution", "console"} -> args = given
      [] name \in {"move_forward", "rotate_left", "rotate_right"} ->
             Len(args) = 1 /\ args[1].ty = "float" /\ args[1].num = given[1].num
      [] name = "move_backward" ->
             Len(args) = 1 /\ args[1].ty = "float" /\ args[1].num = 0 - given[1].num
      [] name = "save_image" -> Len(args) = 1 /\ args[1].ty = "str"
      [] name \in {"reset", "switch_camera"} -> Len(args) = 1 /\ args[1].ty = "float"
      [] name = "quality" ->
             args = given /\ args[1].ty = "int" /\ args[1].num \in 0..4
      [] OTHER -> FALSE

C9_NoOrphanThread ==
    /\ pc = "failed" => (thread = "none" /\ ~clientBound)
    /\ pc \notin {"new", "failed"} => (serverBound /\ clientBound /\ thread # "none")
    /\ (pc \notin {"new", "failed"} /\ closes = 0 /\ call.name \notin {"close_osc", "__exit__"})
           => thread \in {"started", "serving"}

C9_Witness ==
    /\ pc = "failed"
    /\ serverBound
    /\ ~clientBound
    /\ inbox # <<>>

\* The caller is in a call that may block or that sleeps.
Suspended == pc \in {"wait", "sleep", "shutdown", "join"}

\* C10 as stated: among the methods that send a command, the caller is
\* suspended only in a request/response method, waiting for the reply.
C10_SuspendsOnlyInRequests ==
    (Suspended /\ call.name \in FireAndForgetMethods \cup GetMethods \cup {"set_yaw"}) =>
        (pc = "wait" /\ call.name \in GetMethods \cup {"set_yaw"})

\* C10 amended: the caller is suspended only while a request/response method
\* waits for its reply, while save_image or reset sleeps after its send, and
\* while close_osc waits for the listener thread; every other fire-and-forget
\* method has returned with its send.
C10_SuspensionPoints ==
    Suspended =>
        \/ pc = "wait" /\ call.name \in GetMethods \cup {"set_yaw"}
        \/ pc = "sleep" /\ call.name \in {"save_image", "reset"} /\ Len(sent) = 1
        \/ pc \in {"shutdown", "join"} /\ call.name \in {"close_osc", "__exit__"}

C10_Witness ==
    /\ pc = "sleep"
    /\ call.name = "reset"
    /\ sent = <<Msg("/reset", <<F(0)>>)>>

====
